---- MODULE Spec2Model ----
(***************************************************************************)
(* Model of the block staging cache of read-blk (src/src/block_cache.rs)   *)
(* and of the importer's use of it (src/src/main.rs).                      *)
(*                                                                         *)
(* A block is the pair of its hash and its header's prev_blockhash; the    *)
(* rest of the payload is opaque to the cache.  Hashes are opaque          *)
(* identifiers that the code only compares for equality, so they are       *)
(* numbered here in the order in which the blocks are submitted: the k-th  *)
(* submitted block has hash k-1, and its prev_hash ranges over every hash  *)
(* (earlier ones, itself, later ones, and one hash that is never a block). *)
(***************************************************************************)
EXTENDS Integers, Sequences, FiniteSets, TLC

\* ---------------------------------------------------------------- bounds
MaxBlocks == 5
MaxThreshold == 3
MaxChain == 5

\* ------------------------------------------------------------- constants
None == -1

BlockHashes == 0 .. MaxBlocks

NoneBlock == [hash |-> None, prev_hash |-> None]

VARIABLES
    pending_full_blocks,   \* HashMap<BlockHash, Block>
    out_of_order_blocks,   \* HashMap<BlockHash, Vec<BlockInfo>>
    staged_blocks,         \* StagedBlocks
    panicked,              \* an expect()/overflow check aborted the process
    overflow_checks,       \* the build: TRUE = arithmetic overflow panics, FALSE = it wraps
    added,                 \* hashes submitted to add_block so far, in order of submission
    returned,              \* blocks returned by remove_block_if_ready so far, in order
    purged,                \* blocks removed by purge_losing_blocks so far
    refilled,              \* add_block rooted an empty tree since the last returned block
    last,                  \* the last call: [op, hash, ret]
    drain                  \* threshold of the drain loop of a chain scenario, None outside one

vars == <<pending_full_blocks, out_of_order_blocks, staged_blocks, panicked,
          overflow_checks, added, returned, refilled, purged, last, drain>>

\* ----------------------------------------------------------- map helpers
MapInsert(m, k, v) == [x \in (DOMAIN m) \cup {k} |-> IF x = k THEN v ELSE m[x]]

MapRemove(m, k) == [x \in (DOMAIN m) \ {k} |-> m[x]]

EmptyMap == [x \in {} |-> None]

SetMax(S) == CHOOSE x \in S : \A y \in S : y <= x

\* ------------------------------------------------------------ data model
\* Mutant: the two hashes are passed in the wrong order.
BlockInfo_new_Swapped(hash, prev_hash) == [hash |-> prev_hash, prev_hash |-> hash]

BlockInfo_new(hash, prev_hash) == [hash |-> hash, prev_hash |-> prev_hash]

TreeNode_new(block_info) ==
    [block_info |-> block_info, parent |-> None, children |-> {}, orig_level |-> 0]

StagedBlocks_new ==
    [tree_root |-> None, nodes |-> EmptyMap, tree_depth |-> 0, root_removed_cnt |-> 0]

\* The cache as one value, threaded through the operators below.  purged
\* and panicked ride along so that the recursive helpers can update them.
Cache ==
    [pending_full_blocks |-> pending_full_blocks,
     out_of_order_blocks |-> out_of_order_blocks,
     staged_blocks |-> staged_blocks,
     purged |-> purged,
     panicked |-> panicked]

BlockCache_new ==
    [pending_full_blocks |-> EmptyMap,
     out_of_order_blocks |-> EmptyMap,
     staged_blocks |-> StagedBlocks_new,
     purged |-> <<>>,
     panicked |-> FALSE]

Panic(c) == [c EXCEPT !.panicked = TRUE]

pending_cnt == Cardinality(DOMAIN pending_full_blocks)

staged_cnt == Cardinality(DOMAIN staged_blocks.nodes)

out_of_order_cnt == Cardinality(DOMAIN out_of_order_blocks)

purged_cnt == Len(purged)

\* A u32 is held as its 32-bit pattern read in two's complement (2^32 - k is
\* written -k), the width of the checker's integers; every value met here is
\* within 2^31 of zero, so + and - on patterns are the wrapping u32 operations.
\* u32 subtraction a - b in a build without overflow checks:
WrappingSub(a, b) == a - b

\* a < b on u32 patterns.
U32Less(a, b) == IF (a < 0) = (b < 0) THEN a < b ELSE b < 0

\* ------------------------------------------- StagedBlocks::add_block_info
\* Mutant: the new node is not entered in its parent's children.
StagedAddBlockInfo_NoLink(c, block_info) ==
    LET sb == c.staged_blocks
        new_node == TreeNode_new(block_info)
    IN  IF sb.tree_root = None
        THEN [c EXCEPT !.staged_blocks.tree_root = block_info.hash,
                       !.staged_blocks.nodes =
                            MapInsert(sb.nodes, block_info.hash,
                                      [new_node EXCEPT !.orig_level = 1])]
        ELSE IF block_info.prev_hash \notin DOMAIN sb.nodes
        THEN Panic(c)
        ELSE
            LET parent_node == sb.nodes[block_info.prev_hash]
                orig_level == parent_node.orig_level + 1
                node == [new_node EXCEPT !.orig_level = orig_level,
                                         !.parent = parent_node.block_info.hash]
                depth == WrappingSub(orig_level, sb.root_removed_cnt)
            IN  IF U32Less(orig_level, sb.root_removed_cnt) /\ overflow_checks
                THEN Panic(c)
                ELSE [c EXCEPT !.staged_blocks.nodes =
                                    MapInsert(sb.nodes, block_info.hash, node),
                               !.staged_blocks.tree_depth =
                                    IF U32Less(sb.tree_depth, depth) THEN depth ELSE @]

StagedAddBlockInfo(c, block_info) ==
    LET sb == c.staged_blocks
        new_node == TreeNode_new(block_info)
    IN  IF sb.tree_root = None
        THEN [c EXCEPT !.staged_blocks.tree_root = block_info.hash,
                       !.staged_blocks.nodes =
                            MapInsert(sb.nodes, block_info.hash,
                                      [new_node EXCEPT !.orig_level = 1])]
        ELSE IF block_info.prev_hash \notin DOMAIN sb.nodes
        THEN Panic(c)   \* "parent node expected"
        ELSE
            LET parent_node == sb.nodes[block_info.prev_hash]
                orig_level == parent_node.orig_level + 1
                linked == [sb.nodes EXCEPT ![block_info.prev_hash].children =
                                               @ \cup {block_info.hash}]
                node == [new_node EXCEPT !.orig_level = orig_level,
                                         !.parent = parent_node.block_info.hash]
                depth == WrappingSub(orig_level, sb.root_removed_cnt)
            IN  IF U32Less(orig_level, sb.root_removed_cnt) /\ overflow_checks
                THEN Panic([c EXCEPT !.staged_blocks.nodes = linked])
                ELSE [c EXCEPT !.staged_blocks.nodes =
                                    MapInsert(linked, block_info.hash, node),
                               !.staged_blocks.tree_depth =
                                    IF U32Less(sb.tree_depth, depth) THEN depth ELSE @]

\* --------------------------- BlockCache::move_out_of_order_blocks_to_staged
RECURSIVE MoveOutOfOrderBlocksToStaged(_, _)
RECURSIVE MoveVec(_, _)

\* Mutant: the drained descriptors are staged without draining their own
\* dependents.
RECURSIVE MoveVec_Shallow(_, _)
MoveVec_Shallow(c, block_info_vec) ==
    IF block_info_vec = <<>> \/ c.panicked
    THEN c
    ELSE MoveVec_Shallow(StagedAddBlockInfo(c, Head(block_info_vec)),
                         Tail(block_info_vec))

MoveVec(c, block_info_vec) ==
    IF block_info_vec = <<>> \/ c.panicked
    THEN c
    ELSE LET block_info == Head(block_info_vec)
             c1 == StagedAddBlockInfo(c, block_info)
             c2 == IF c1.panicked THEN c1
                   ELSE MoveOutOfOrderBlocksToStaged(c1, block_info.hash)
         IN  MoveVec(c2, Tail(block_info_vec))

MoveOutOfOrderBlocksToStaged(c, prev_hash) ==
    IF prev_hash \in DOMAIN c.out_of_order_blocks
    THEN MoveVec([c EXCEPT !.out_of_order_blocks = MapRemove(@, prev_hash)],
                 c.out_of_order_blocks[prev_hash])
    ELSE c

\* --------------------------------------------- BlockCache::add_block_info
\* Mutant: a staged block does not drain the descriptors waiting for it.
AddBlockInfo_NoDrain(c, block_info) ==
    IF c.staged_blocks.tree_root = None
       \/ block_info.prev_hash \in DOMAIN c.staged_blocks.nodes
    THEN StagedAddBlockInfo(c, block_info)
    ELSE LET key == block_info.prev_hash
             vec == IF key \in DOMAIN c.out_of_order_blocks
                    THEN c.out_of_order_blocks[key] ELSE <<>>
         IN  [c EXCEPT !.out_of_order_blocks =
                            MapInsert(@, key, Append(vec, block_info))]

\* Mutant: a block is staged only when its parent is staged, also on an
\* empty tree.
AddBlockInfo_NoRootAcceptance(c, block_info) ==
    IF block_info.prev_hash \in DOMAIN c.staged_blocks.nodes
    THEN LET c1 == StagedAddBlockInfo(c, block_info)
         IN  IF c1.panicked THEN c1
             ELSE MoveOutOfOrderBlocksToStaged(c1, block_info.hash)
    ELSE LET key == block_info.prev_hash
             vec == IF key \in DOMAIN c.out_of_order_blocks
                    THEN c.out_of_order_blocks[key] ELSE <<>>
         IN  [c EXCEPT !.out_of_order_blocks =
                            MapInsert(@, key, Append(vec, block_info))]

\* Mutant: parking replaces the list waiting for the parent instead of
\* appending to it.
AddBlockInfo_Overwrite(c, block_info) ==
    IF c.staged_blocks.tree_root = None
       \/ block_info.prev_hash \in DOMAIN c.staged_blocks.nodes
    THEN LET c1 == StagedAddBlockInfo(c, block_info)
         IN  IF c1.panicked THEN c1
             ELSE MoveOutOfOrderBlocksToStaged(c1, block_info.hash)
    ELSE [c EXCEPT !.out_of_order_blocks =
                       MapInsert(@, block_info.prev_hash, <<block_info>>)]

AddBlockInfo(c, block_info) ==
    IF c.staged_blocks.tree_root = None
       \/ block_info.prev_hash \in DOMAIN c.staged_blocks.nodes
    THEN LET c1 == StagedAddBlockInfo(c, block_info)
         IN  IF c1.panicked THEN c1
             ELSE MoveOutOfOrderBlocksToStaged(c1, block_info.hash)
    ELSE LET key == block_info.prev_hash
             vec == IF key \in DOMAIN c.out_of_order_blocks
                    THEN c.out_of_order_blocks[key] ELSE <<>>
         IN  [c EXCEPT !.out_of_order_blocks =
                            MapInsert(@, key, Append(vec, block_info))]

\* --------------------------------------------- BlockCache::add_block_impl
\* Mutant: the payload is not stored.
AddBlockImpl_NoPayload(c, block_info, block) == AddBlockInfo(c, block_info)

AddBlockImpl(c, block_info, block) ==
    AddBlockInfo([c EXCEPT !.pending_full_blocks =
                               MapInsert(@, block_info.hash, block)],
                 block_info)

\* -------------------------------------------------- BlockCache::add_block
AddBlockOp(c, block) ==
    AddBlockImpl(c, BlockInfo_new(block.hash, block.prev_hash), block)

\* ------------------------------- StagedBlocks::calculate_depth_from_node
\* None stands for the panic "node expected".
RECURSIVE CalculateDepthFromNode(_, _)
CalculateDepthFromNode(nodes, block_hash) ==
    IF block_hash \notin DOMAIN nodes
    THEN None
    ELSE LET depths == {CalculateDepthFromNode(nodes, child_hash) :
                            child_hash \in nodes[block_hash].children}
         IN  IF None \in depths THEN None
             ELSE SetMax(depths \cup {0}) + 1

\* ------------------------------------ BlockCache::purge_losing_blocks
\* Mutant: only the losing children are purged, not their descendants.
RECURSIVE PurgeLosingBlocks_Shallow(_, _)
PurgeLosingBlocks_Shallow(c, block_hashes) ==
    IF block_hashes = {} \/ c.panicked
    THEN c
    ELSE LET hash == CHOOSE h \in block_hashes : TRUE
         IN  IF hash \notin DOMAIN c.pending_full_blocks
             THEN Panic(c)
             ELSE IF hash \notin DOMAIN c.staged_blocks.nodes
             THEN Panic([c EXCEPT !.pending_full_blocks = MapRemove(@, hash)])
             ELSE PurgeLosingBlocks_Shallow(
                      [c EXCEPT !.pending_full_blocks = MapRemove(@, hash),
                                !.staged_blocks.nodes = MapRemove(@, hash),
                                !.purged = Append(@, c.pending_full_blocks[hash])],
                      block_hashes \ {hash})

RECURSIVE PurgeLosingBlocks(_, _)
PurgeLosingBlocks(c, block_hashes) ==
    IF block_hashes = {} \/ c.panicked
    THEN c
    ELSE LET hash == CHOOSE h \in block_hashes : TRUE
         IN  IF hash \notin DOMAIN c.pending_full_blocks
             THEN Panic(c)   \* "full block expected"
             ELSE IF hash \notin DOMAIN c.staged_blocks.nodes
             THEN Panic([c EXCEPT !.pending_full_blocks = MapRemove(@, hash)])
                             \* "node expected"
             ELSE LET node == c.staged_blocks.nodes[hash]
                      c1 == [c EXCEPT !.pending_full_blocks = MapRemove(@, hash),
                                      !.staged_blocks.nodes = MapRemove(@, hash),
                                      !.purged = Append(@, c.pending_full_blocks[hash])]
                  IN  PurgeLosingBlocks(PurgeLosingBlocks(c1, node.children),
                                        block_hashes \ {hash})

\* -------------------------- StagedBlocks::remove_block_info_if_ready
\* The children of the root that the loop of lines 237-243 can end on: the
\* HashSet iterates in an unspecified order and the strict comparison keeps the
\* first child of maximal depth, so any child of maximal depth can win.
\* Mutant: the first child met wins, whatever its depth.
DeepestChildren_Any(nodes, children) == children

DeepestChildren(nodes, children) ==
    {ch \in children :
        \A other \in children :
            CalculateDepthFromNode(nodes, other) <= CalculateDepthFromNode(nodes, ch)}

\* The result is [c, block_info, losing_some, losing]: the cache afterwards and
\* the pair (Option<BlockInfo>, Option<HashSet<BlockHash>>).
RemoveNone(c) ==
    [c |-> c, block_info |-> NoneBlock, losing_some |-> FALSE, losing |-> {}]

\* Mutant: a promotion does not count the removed root.
RemoveBlockInfoIfReady_NoCount(c, depth_threshold, winning_child_hash) ==
    LET sb == c.staged_blocks
    IN  IF U32Less(sb.tree_depth, depth_threshold) \/ sb.tree_depth = 0
        THEN RemoveNone(c)
        ELSE IF sb.tree_root = None
        THEN RemoveNone(Panic(c))   \* "root hash expected"
        ELSE IF sb.tree_root \notin DOMAIN sb.nodes
        THEN RemoveNone(Panic(c))   \* "root node expected"
        ELSE
            LET root_node == sb.nodes[sb.tree_root]
                nodes1 == MapRemove(sb.nodes, sb.tree_root)
                child_cnt == Cardinality(root_node.children)
                depth_panics == \E ch \in root_node.children :
                                    CalculateDepthFromNode(nodes1, ch) = None
                new_root == IF child_cnt > 1 THEN winning_child_hash
                            ELSE IF child_cnt = 1
                            THEN CHOOSE ch \in root_node.children : TRUE
                            ELSE None
                has_new_root == new_root # None /\ new_root \in DOMAIN nodes1
                nodes2 == IF has_new_root
                          THEN [nodes1 EXCEPT ![new_root].parent = None]
                          ELSE nodes1
                sb2 == [tree_root |-> IF has_new_root
                                      THEN nodes1[new_root].block_info.hash
                                      ELSE None,
                        nodes |-> nodes2,
                        tree_depth |-> sb.tree_depth - 1,
                        root_removed_cnt |-> sb.root_removed_cnt]
            IN  IF child_cnt > 1 /\ depth_panics
                THEN RemoveNone(Panic([c EXCEPT !.staged_blocks.nodes = nodes1]))
                ELSE [c |-> [c EXCEPT !.staged_blocks = sb2],
                      block_info |-> root_node.block_info,
                      losing_some |-> child_cnt > 1,
                      losing |-> IF child_cnt > 1
                                 THEN root_node.children \ {winning_child_hash}
                                 ELSE {}]

RemoveBlockInfoIfReady(c, depth_threshold, winning_child_hash) ==
    LET sb == c.staged_blocks
    IN  IF U32Less(sb.tree_depth, depth_threshold) \/ sb.tree_depth = 0
        THEN RemoveNone(c)
        ELSE IF sb.tree_root = None
        THEN RemoveNone(Panic(c))   \* "root hash expected"
        ELSE IF sb.tree_root \notin DOMAIN sb.nodes
        THEN RemoveNone(Panic(c))   \* "root node expected"
        ELSE
            LET root_node == sb.nodes[sb.tree_root]
                nodes1 == MapRemove(sb.nodes, sb.tree_root)
                child_cnt == Cardinality(root_node.children)
                depth_panics == \E ch \in root_node.children :
                                    CalculateDepthFromNode(nodes1, ch) = None
                new_root == IF child_cnt > 1 THEN winning_child_hash
                            ELSE IF child_cnt = 1
                            THEN CHOOSE ch \in root_node.children : TRUE
                            ELSE None
                has_new_root == new_root # None /\ new_root \in DOMAIN nodes1
                nodes2 == IF has_new_root
                          THEN [nodes1 EXCEPT ![new_root].parent = None]
                          ELSE nodes1
                sb2 == [tree_root |-> IF has_new_root
                                      THEN nodes1[new_root].block_info.hash
                                      ELSE None,
                        nodes |-> nodes2,
                        tree_depth |-> sb.tree_depth - 1,
                        root_removed_cnt |-> sb.root_removed_cnt + 1]
            IN  IF child_cnt > 1 /\ depth_panics
                THEN RemoveNone(Panic([c EXCEPT !.staged_blocks.nodes = nodes1]))
                ELSE [c |-> [c EXCEPT !.staged_blocks = sb2],
                      block_info |-> root_node.block_info,
                      losing_some |-> child_cnt > 1,
                      losing |-> IF child_cnt > 1
                                 THEN root_node.children \ {winning_child_hash}
                                 ELSE {}]

\* The choices of winning_child_hash the iteration order allows in state c.
WinnerChoices(c) ==
    LET sb == c.staged_blocks
    IN  IF sb.tree_root \in DOMAIN sb.nodes
           /\ Cardinality(sb.nodes[sb.tree_root].children) > 1
        THEN LET ds == DeepestChildren(MapRemove(sb.nodes, sb.tree_root),
                                       sb.nodes[sb.tree_root].children)
             IN  IF ds = {} THEN {None} ELSE ds
        ELSE {None}

\* ------------------------------- BlockCache::remove_block_if_ready_impl
\* The result is [c, block_info, block]: (Option<BlockInfo>, Option<Block>).
\* Mutant: the promoted block's payload is left in pending.
RemoveBlockIfReadyImpl_KeepPayload(c, depth_threshold, winning_child_hash) ==
    LET r == RemoveBlockInfoIfReady(c, depth_threshold, winning_child_hash)
    IN  IF r.block_info # NoneBlock
        THEN LET c1 == IF r.losing_some THEN PurgeLosingBlocks(r.c, r.losing)
                       ELSE r.c
                 hash == r.block_info.hash
             IN  IF c1.panicked
                 THEN [c |-> c1, block_info |-> NoneBlock, block |-> NoneBlock]
                 ELSE [c |-> c1,
                       block_info |-> r.block_info,
                       block |-> IF hash \in DOMAIN c1.pending_full_blocks
                                 THEN c1.pending_full_blocks[hash]
                                 ELSE NoneBlock]
        ELSE [c |-> r.c, block_info |-> NoneBlock, block |-> NoneBlock]

RemoveBlockIfReadyImpl(c, depth_threshold, winning_child_hash) ==
    LET r == RemoveBlockInfoIfReady(c, depth_threshold, winning_child_hash)
    IN  IF r.block_info # NoneBlock
        THEN LET c1 == IF r.losing_some THEN PurgeLosingBlocks(r.c, r.losing)
                       ELSE r.c
                 hash == r.block_info.hash
             IN  IF c1.panicked
                 THEN [c |-> c1, block_info |-> NoneBlock, block |-> NoneBlock]
                 ELSE [c |-> [c1 EXCEPT !.pending_full_blocks = MapRemove(@, hash)],
                       block_info |-> r.block_info,
                       block |-> IF hash \in DOMAIN c1.pending_full_blocks
                                 THEN c1.pending_full_blocks[hash]
                                 ELSE NoneBlock]
        ELSE [c |-> r.c, block_info |-> NoneBlock, block |-> NoneBlock]

\* ----------------------------------- BlockCache::remove_block_if_ready
RemoveBlockIfReadyOp(c, depth_threshold, winning_child_hash) ==
    LET r == RemoveBlockIfReadyImpl(c, depth_threshold, winning_child_hash)
    IN  [c |-> r.c, block |-> r.block]

\* ----------------------------------------------------------------- state
Install(c) ==
    /\ pending_full_blocks' = c.pending_full_blocks
    /\ out_of_order_blocks' = c.out_of_order_blocks
    /\ staged_blocks' = c.staged_blocks
    /\ purged' = c.purged
    /\ panicked' = c.panicked

Init ==
    /\ pending_full_blocks = BlockCache_new.pending_full_blocks
    /\ out_of_order_blocks = BlockCache_new.out_of_order_blocks
    /\ staged_blocks = BlockCache_new.staged_blocks
    /\ purged = <<>>
    /\ panicked = FALSE
    /\ overflow_checks \in BOOLEAN
    /\ added = <<>>
    /\ returned = <<>>
    /\ refilled = FALSE
    /\ last = [op |-> "new", hash |-> None, ret |-> NoneBlock]
    /\ drain = None

\* A call of add_block(block).
CallAddBlock(block) ==
    LET c == AddBlockOp(Cache, block)
    IN  /\ Install(c)
        /\ added' = Append(added, block.hash)
        /\ returned' = returned
        /\ refilled' = (refilled \/ (staged_blocks.tree_root = None /\ ~c.panicked))
        /\ last' = [op |-> "add_block", hash |-> block.hash, ret |-> NoneBlock]

\* A call of remove_block_if_ready(depth_threshold).
CallRemoveBlockIfReady(depth_threshold) ==
    \E winning_child_hash \in WinnerChoices(Cache) :
        LET r == RemoveBlockIfReadyOp(Cache, depth_threshold, winning_child_hash)
        IN  /\ Install(r.c)
            /\ added' = added
            /\ returned' = IF r.block # NoneBlock THEN Append(returned, r.block)
                           ELSE returned
            /\ refilled' = (refilled /\ r.block = NoneBlock)
            /\ last' = [op |-> "remove_block_if_ready", hash |-> None, ret |-> r.block]

\* add_block of a block never submitted before; its hash is the next unused one.
AddBlock ==
    /\ ~panicked
    /\ Len(added) < MaxBlocks
    /\ \E prev_hash \in BlockHashes :
           CallAddBlock([hash |-> Len(added), prev_hash |-> prev_hash])
    /\ UNCHANGED <<overflow_checks, drain>>

RemoveBlockIfReady ==
    /\ ~panicked
    /\ \E depth_threshold \in 0 .. MaxThreshold :
           CallRemoveBlockIfReady(depth_threshold)
    /\ UNCHANGED <<overflow_checks, drain>>

Next == AddBlock \/ RemoveBlockIfReady

Spec == Init /\ [][Next]_vars

\* ------------------------------------------------- linear-chain scenario
\* Block i of the chain has hash i and prev_hash i-1; the parent of block 0 is
\* a hash outside the chain.  The blocks are added in any order; once a whole
\* chain 0..L-1 is in, remove_block_if_ready(T) is called with one T >= 1 until
\* it returns None.
ChainBlock(i) == [hash |-> i, prev_hash |-> IF i = 0 THEN MaxChain ELSE i - 1]

AddedSet == {added[i] : i \in 1 .. Len(added)}

ChainDrained ==
    drain # None /\ last.op = "remove_block_if_ready" /\ last.ret = NoneBlock

ChainAddBlock ==
    /\ ~panicked
    /\ drain = None
    /\ \E i \in (0 .. MaxChain - 1) \ AddedSet : CallAddBlock(ChainBlock(i))
    /\ UNCHANGED <<overflow_checks, drain>>

ChainRemoveBlockIfReady ==
    /\ ~panicked
    /\ added # <<>>
    /\ AddedSet = 0 .. Len(added) - 1
    /\ ~ChainDrained
    /\ \E depth_threshold \in 1 .. MaxThreshold :
           /\ drain \in {None, depth_threshold}
           /\ drain' = depth_threshold
           /\ CallRemoveBlockIfReady(depth_threshold)
    /\ UNCHANGED overflow_checks

NextChain == ChainAddBlock \/ ChainRemoveBlockIfReady

SpecChain == Init /\ [][NextChain]_vars

\* =================================================================
\* Properties
\* =================================================================
Nodes == staged_blocks.nodes

TreeRoot == staged_blocks.tree_root

\* The descriptors parked in out_of_order_blocks, as (key, position) pairs.
ParkedSlots ==
    UNION {{<<k, i>> : i \in 1 .. Len(out_of_order_blocks[k])} :
              k \in DOMAIN out_of_order_blocks}

ParkedAt(s) == out_of_order_blocks[s[1]][s[2]]

ParkedHashes == {ParkedAt(s).hash : s \in ParkedSlots}

\* The last call was a remove_block_if_ready that returned a block.
Promoted ==
    ~panicked /\ last.op = "remove_block_if_ready" /\ last.ret # NoneBlock

\* The last call was an add_block that returned.
Added == ~panicked /\ last.op = "add_block"

\* ------------------------------------------------------------------ C1
\* C1 (as stated): the blocks returned by successive remove_block_if_ready
\* calls form a parent chain: each returned block's prev_hash is the hash of
\* the block returned before it.
C1_ParentChain ==
    \A i \in 1 .. Len(returned) - 1 : returned[i + 1].prev_hash = returned[i].hash

\* C1 (amended): with pairwise-distinct block hashes, whenever two blocks are
\* returned one after the other and no add_block has rooted an empty tree in
\* between, the later block's prev_hash is the earlier block's hash.
C1_ParentChainWhileRooted ==
    [][(Promoted' /\ returned # <<>> /\ ~refilled)
          => last'.ret.prev_hash = returned[Len(returned)].hash]_vars

\* Two blocks have been returned with add_block calls in between, the tree
\* still holding the first one's child.
C1_Witness ==
    /\ Promoted
    /\ Len(returned) >= 2
    /\ ~refilled
    /\ Len(added) > Len(returned) + 1
    /\ TreeRoot # None

\* ------------------------------------------------------------------ C2
\* C2: payload closure.  After every add_block and remove_block_if_ready of
\* pairwise-distinct blocks, every staged or parked descriptor has its hash in
\* pending, every key of pending is exactly one tree node or one parked
\* descriptor, and pending_cnt = staged_cnt + number of parked descriptors.
C2_PayloadClosure ==
    ~panicked =>
        /\ \A h \in DOMAIN Nodes : Nodes[h].block_info.hash \in DOMAIN pending_full_blocks
        /\ ParkedHashes \subseteq DOMAIN pending_full_blocks
        /\ \A h \in DOMAIN pending_full_blocks :
              Cardinality({n \in DOMAIN Nodes : Nodes[n].block_info.hash = h})
                + Cardinality({s \in ParkedSlots : ParkedAt(s).hash = h}) = 1
        /\ pending_cnt = staged_cnt + Cardinality(ParkedSlots)

\* A promotion has purged a losing branch while descriptors stay staged and parked.
C2_Witness ==
    Promoted /\ purged # <<>> /\ staged_cnt > 0 /\ Cardinality(ParkedSlots) > 0

\* ------------------------------------------------------------------ C3
\* C3: tree connectivity.  After every add_block and remove_block_if_ready of
\* pairwise-distinct blocks, every node but the root has its parent in nodes
\* and is in that parent's children; the root's parent is absent.
C3_TreeConnectivity ==
    ~panicked =>
        \A h \in DOMAIN Nodes :
            IF h = TreeRoot
            THEN Nodes[h].parent = None
            ELSE /\ Nodes[h].parent \in DOMAIN Nodes
                 /\ h \in Nodes[Nodes[h].parent].children

\* A promotion left a new root with at least one descendant.
C3_Witness == Promoted /\ TreeRoot # None /\ staged_cnt >= 2

\* ------------------------------------------------------------------ C4
\* C4: depth correctness.  After every add_block and remove_block_if_ready,
\* tree_depth = max orig_level over the nodes - root_removed_cnt, and 0 when the
\* tree has no nodes; so tree_depth = 1 when the tree is the root alone.
C4_DepthCorrect ==
    ~panicked =>
        staged_blocks.tree_depth =
            IF DOMAIN Nodes = {} THEN 0
            ELSE SetMax({Nodes[h].orig_level : h \in DOMAIN Nodes})
                    - staged_blocks.root_removed_cnt

\* ------------------------------------------------------------------ C5
\* C5 (as stated): whenever out-of-order holding contains a descriptor d,
\* d.prev_hash is not a key of nodes and the tree is non-empty.
C5_OrphanFreeHolding ==
    ~panicked =>
        \A s \in ParkedSlots :
            /\ ParkedAt(s).prev_hash \notin DOMAIN Nodes
            /\ DOMAIN Nodes # {}

\* C5 (amended): whenever out-of-order holding contains a descriptor d,
\* d.prev_hash is not a key of nodes (the tree may be empty).
C5_ParkedParentNotStaged ==
    ~panicked =>
        \A s \in ParkedSlots : ParkedAt(s).prev_hash \notin DOMAIN Nodes

\* A descriptor stays parked after an add_block that drained another one
\* into the tree.
C5_Witness ==
    /\ Added
    /\ Cardinality(ParkedSlots) > 0
    /\ \E h \in DOMAIN Nodes : h < last.hash /\ Nodes[h].parent = last.hash

\* ------------------------------------------------------------------ C6
\* C6: root acceptance.  Whenever the tree is empty, the next add_block makes
\* its descriptor the root of the tree, whatever its prev_hash and whatever is
\* parked; the descriptor is not parked.
C6_RootAcceptance ==
    [][(~panicked /\ TreeRoot = None /\ Added')
          => /\ TreeRoot' = last'.hash
             /\ last'.hash \in DOMAIN Nodes'
             /\ Nodes'[last'.hash].parent = None
             /\ last'.hash \notin ParkedHashes']_vars

\* A block whose parent is not staged became the root of a tree that
\* promotions had emptied, with descriptors parked.
C6_Witness ==
    /\ Added
    /\ TreeRoot = last.hash
    /\ staged_blocks.root_removed_cnt > 0
    /\ Cardinality(ParkedSlots) > 0
    /\ pending_full_blocks[last.hash].prev_hash \notin DOMAIN Nodes

\* ------------------------------------------------------------------ C7
\* Number of nodes on the longest path from a node of S downwards.
RECURSIVE Generations(_, _)
Generations(nodes, S) ==
    IF S = {} THEN 0
    ELSE 1 + Generations(nodes, UNION {nodes[h].children : h \in S})

SubtreeDepth(nodes, h) == Generations(nodes, {h})

\* C7: fork choice.  When remove_block_if_ready promotes a root with two or
\* more children, the new root is a child whose subtree depth is at least that
\* of every other child; with exactly one child, that child is the new root;
\* in both cases the new root's parent is cleared and the returned block is
\* the removed root's.
C7_ForkChoice ==
    [][(Promoted' /\ ~panicked /\ TreeRoot \in DOMAIN Nodes)
          => LET children == Nodes[TreeRoot].children
             IN  /\ last'.ret = pending_full_blocks[TreeRoot]
                 /\ children # {} =>
                        /\ TreeRoot' \in children
                        /\ Nodes'[TreeRoot'].parent = None
                        /\ \A other \in children :
                              SubtreeDepth(Nodes, TreeRoot')
                                  >= SubtreeDepth(Nodes, other)]_vars

\* The first promotion chose between a leaf child, now purged, and a child
\* that has a child of its own.
C7_Witness ==
    /\ Promoted
    /\ Len(returned) = 1
    /\ Len(purged) = 1
    /\ purged[1].prev_hash = returned[1].hash
    /\ TreeRoot # None
    /\ Nodes[TreeRoot].children # {}

\* ------------------------------------------------------------------ C8
RECURSIVE Subtree(_, _)
Subtree(nodes, h) ==
    {h} \cup UNION {Subtree(nodes, ch) : ch \in nodes[h].children}

\* C8: pruning.  After a successful remove_block_if_ready, every losing child
\* of the removed root and every descendant of one is gone from nodes and from
\* pending; every node of the winning child's subtree and every parked
\* descriptor keeps its entry and its payload; nodes is exactly the new root
\* and its descendants.
C8_Pruning ==
    [][(Promoted' /\ ~panicked /\ TreeRoot \in DOMAIN Nodes)
          => LET children == Nodes[TreeRoot].children
                 winning == IF TreeRoot' = None THEN {} ELSE Subtree(Nodes, TreeRoot')
                 losing == UNION {Subtree(Nodes, ch) : ch \in children \ {TreeRoot'}}
             IN  /\ \A h \in losing :
                        h \notin DOMAIN Nodes' /\ h \notin DOMAIN pending_full_blocks'
                 /\ \A h \in winning :
                        /\ h \in DOMAIN Nodes'
                        /\ Nodes'[h].block_info = Nodes[h].block_info
                        /\ Nodes'[h].children = Nodes[h].children
                        /\ h \in DOMAIN pending_full_blocks'
                        /\ pending_full_blocks'[h] = pending_full_blocks[h]
                 /\ out_of_order_blocks' = out_of_order_blocks
                 /\ \A h \in ParkedHashes :
                        /\ h \in DOMAIN pending_full_blocks'
                        /\ pending_full_blocks'[h] = pending_full_blocks[h]
                 /\ DOMAIN Nodes' = IF TreeRoot' = None THEN {}
                                    ELSE Subtree(Nodes', TreeRoot')]_vars

\* A promotion purged a losing child together with a child of that child and
\* kept the winning child with its own child.
C8_Witness ==
    /\ Promoted
    /\ Len(returned) = 1
    /\ \E i, j \in 1 .. Len(purged) :
          /\ purged[i].prev_hash = returned[1].hash
          /\ purged[j].prev_hash = purged[i].hash
    /\ staged_cnt >= 2

\* ------------------------------------------------------------------ C9
ChainPrefix(first, n) == [i \in 1 .. n |-> ChainBlock(first + i - 1)]

C10_Conservation ==
    ~panicked => Len(added) = pending_cnt + Len(returned) + purged_cnt

\* Blocks have been returned and purged while others are still pending.
C10_Witness ==
    /\ ~panicked
    /\ Len(returned) >= 2
    /\ purged_cnt >= 1
    /\ pending_cnt >= 1

\* ------------------------------------------- arbitrary-arrival scenario
\* Blocks with freely chosen hashes and parents are added to a fresh cache in
\* any order, with no promotion in between.
MaxPerm == 4

PermAddBlock ==
    /\ ~panicked
    /\ Len(added) < MaxPerm
    /\ \E hash \in (0 .. MaxPerm - 1) \ AddedSet, prev_hash \in 0 .. MaxPerm :
           CallAddBlock([hash |-> hash, prev_hash |-> prev_hash])
    /\ UNCHANGED <<overflow_checks, drain>>

NextPerm == PermAddBlock

SpecPerm == Init /\ [][NextPerm]_vars

\* The hashes of S in ascending order.
RECURSIVE Ascending(_)
Ascending(S) ==
    IF S = {} THEN <<>>
    ELSE LET least == CHOOSE x \in S : \A y \in S : x <= y
         IN  <<least>> \o Ascending(S \ {least})

\* The cache after add_block of the blocks of `blocks` with the hashes of
\* `order`, in that order, starting from c.
RECURSIVE Replay(_, _, _)
Replay(c, blocks, order) ==
    IF order = <<>> \/ c.panicked THEN c
    ELSE Replay(AddBlockOp(c, blocks[Head(order)]), blocks, Tail(order))

NodePairs(nodes) ==
    {<<nodes[h].block_info.hash, nodes[h].block_info.prev_hash>> : h \in DOMAIN nodes}

\* ----------------------------------------------------------------- C11
\* C11 (as stated): whatever the order in which a collection of descriptors is
\* added to a fresh cache, the set of (hash, prev_hash) pairs in the tree's
\* nodes after all inserts is the same; here: the same as when the collection
\* is added in ascending order of hash.
C11_ArrivalOrderIndependence ==
    ~panicked =>
        NodePairs(Nodes)
            = NodePairs(Replay(BlockCache_new, pending_full_blocks,
                               Ascending(AddedSet)).staged_blocks.nodes)

\* C11 (amended): for any two orders of the same collection of descriptors
\* that start with the same descriptor, the set of (hash, prev_hash) pairs in
\* the tree's nodes after all inserts is the same; here: the same as when the
\* first descriptor is followed by the others in ascending order of hash.
C11_SameFirstOrderIndependence ==
    (~panicked /\ added # <<>>) =>
        NodePairs(Nodes)
            = NodePairs(Replay(BlockCache_new, pending_full_blocks,
                               <<added[1]>> \o Ascending(AddedSet \ {added[1]}))
                            .staged_blocks.nodes)

\* Blocks arrived neither in ascending nor in descending order, a parked one
\* was drained into the tree and another one stays parked.
C11_Witness ==
    /\ ~panicked
    /\ Len(added) = MaxPerm
    /\ \E i, j \in 1 .. Len(added) - 1 : added[i] > added[i + 1] /\ added[j] < added[j + 1]
    /\ \E i, j \in 1 .. Len(added) :
          /\ i < j
          /\ added[i] \in DOMAIN Nodes
          /\ Nodes[added[i]].parent = added[j]
    /\ Cardinality(ParkedSlots) > 0

\* ----------------------------------------------------------------- C12
\* The results remove_block_if_ready(depth_threshold) can have in the
\* current state, one for each iteration order of the root's children.
RemoveOutcomes(depth_threshold) ==
    {RemoveBlockIfReadyOp(Cache, depth_threshold, winning_child_hash) :
        winning_child_hash \in WinnerChoices(Cache)}

\* C12 (as stated): remove_block_if_ready(T) returns None on an empty tree for
\* every T, returns None whenever T is greater than the current tree depth,
\* and with T = 0 returns a block on every non-empty tree, a single root
\* included.
C12_PromotionGating ==
    ~panicked =>
        \A T \in 0 .. MaxThreshold : \A r \in RemoveOutcomes(T) :
            /\ Nodes = EmptyMap => (r.block = NoneBlock /\ ~r.c.panicked)
            /\ U32Less(staged_blocks.tree_depth, T) =>
                   (r.block = NoneBlock /\ ~r.c.panicked)
            /\ (T = 0 /\ Nodes # EmptyMap) => r.block # NoneBlock

\* ------------------------------------------- duplicate-arrival scenario
\* Besides new blocks, a block that is staged or parked (its payload is in
\* pending) may be submitted to add_block a second time.
MaxDup == 4

DupAddNewBlock ==
    /\ ~panicked
    /\ Len(added) < MaxDup
    /\ \E prev_hash \in 0 .. MaxDup :
           CallAddBlock([hash |-> Cardinality(AddedSet), prev_hash |-> prev_hash])
    /\ UNCHANGED <<overflow_checks, drain>>

DupAddBlockAgain ==
    /\ ~panicked
    /\ Len(added) < MaxDup
    /\ \E hash \in DOMAIN pending_full_blocks :
           CallAddBlock(pending_full_blocks[hash])
    /\ UNCHANGED <<overflow_checks, drain>>

NextDup == DupAddNewBlock \/ DupAddBlockAgain \/ RemoveBlockIfReady

SpecDup == Init /\ [][NextDup]_vars

\* The sequences of blocks that up to n calls of
\* remove_block_if_ready(depth_threshold) can return from state c, stopping
\* at the first None.
RECURSIVE DrainSeqs(_, _, _)
DrainSeqs(c, depth_threshold, n) ==
    IF n = 0 \/ c.panicked THEN {<<>>}
    ELSE UNION {LET r == RemoveBlockIfReadyOp(c, depth_threshold, winning_child_hash)
                IN  IF r.block = NoneBlock THEN {<<>>}
                    ELSE {<<r.block>> \o s : s \in DrainSeqs(r.c, depth_threshold, n - 1)} :
                   winning_child_hash \in WinnerChoices(c)}

\* ----------------------------------------------------------------- C13
\* C13 (as stated): when a descriptor that is staged or parked is submitted to
\* add_block a second time in a state where payload closure, tree connectivity
\* and depth correctness hold, add_block returns, the three invariants hold
\* afterwards, and for every threshold the sequences of blocks that later
\* remove_block_if_ready calls can return are those of the state before the
\* duplicate.
C13_DuplicateRobust ==
    [][ (/\ ~panicked
         /\ last'.op = "add_block" /\ last'.hash \in AddedSet
         /\ C2_PayloadClosure /\ C3_TreeConnectivity /\ C4_DepthCorrect)
        => /\ ~panicked'
           /\ C2_PayloadClosure' /\ C3_TreeConnectivity' /\ C4_DepthCorrect'
           /\ \A T \in 0 .. MaxThreshold :
                  DrainSeqs(Cache', T, MaxDup) = DrainSeqs(Cache, T, MaxDup) ]_vars

\* ----------------------------------------------------------------- C14
\* C14: parked forever.  A block added while the tree is non-empty and its
\* parent is not in the tree is parked, so out_of_order_cnt >= 1; a parked
\* descriptor whose parent is not held by the cache (never seen, promoted or
\* purged) stays parked and its payload stays in pending through every
\* add_block of a block other than that parent and through every
\* remove_block_if_ready; and after two blocks of which the second does not
\* name the first as its parent, out_of_order_cnt = 1, staged_cnt = 1 and
\* pending_cnt = 2.
C14_ParkedForever ==
    [][ ~panicked' =>
          /\ (/\ last'.op = "add_block"
              /\ TreeRoot # None
              /\ pending_full_blocks'[last'.hash].prev_hash \notin DOMAIN Nodes)
             => /\ last'.hash \in ParkedHashes'
                /\ last'.hash \notin DOMAIN Nodes'
                /\ out_of_order_cnt' >= 1
          /\ \A s \in ParkedSlots :
                (/\ ParkedAt(s).prev_hash \notin DOMAIN pending_full_blocks
                 /\ ~(last'.op = "add_block" /\ last'.hash = ParkedAt(s).prev_hash))
                => /\ s \in ParkedSlots'
                   /\ ParkedAt(s)' = ParkedAt(s)
                   /\ ParkedAt(s).hash \in DOMAIN pending_full_blocks'
                   /\ out_of_order_cnt' >= 1
          /\ (/\ last'.op = "add_block"
              /\ added' = <<0, 1>>
              /\ pending_full_blocks'[1].prev_hash \notin {0, 1})
             => (out_of_order_cnt' = 1 /\ staged_cnt' = 1 /\ pending_cnt' = 2)
      ]_vars

\* A descriptor whose parent was promoted or purged before it arrived is
\* still parked after a later promotion that purged a branch and after the
\* add_block of further blocks.
C14_Witness ==
    /\ ~panicked
    /\ \E s \in ParkedSlots : \E i \in 1 .. Len(returned) + Len(purged) :
          /\ (returned \o purged)[i].hash = ParkedAt(s).prev_hash
          /\ ParkedAt(s).prev_hash < ParkedAt(s).hash
          /\ ParkedAt(s).hash < Len(added) - 1
          /\ \E j \in 1 .. Len(purged) : purged[j].hash > ParkedAt(s).hash

\* ----------------------------------------------------------------- C15
\* The number of nodes on the path from the first block added up to block h
\* along the prev_hash links of the blocks added, 0 when h is not reached from
\* the first block within n links.
RECURSIVE PathLen(_, _)
PathLen(h, n) ==
    IF h = added[1] THEN 1
    ELSE IF n = 0 \/ h \notin DOMAIN pending_full_blocks THEN 0
    ELSE LET up == PathLen(pending_full_blocks[h].prev_hash, n - 1)
         IN  IF up = 0 THEN 0 ELSE up + 1

\* The blocks added form a fork tree whose root is the first block added.
IsForkTree ==
    added # <<>> /\ \A h \in AddedSet : PathLen(h, MaxPerm) > 0

\* C15 (as stated): when the first block added to a fresh cache is the root
\* of a fork tree and the other blocks of the tree were added in any order,
\* then after the last add_block every block is staged, out_of_order_cnt = 0,
\* every node below the root has its descriptor's prev_hash as parent, and
\* tree_depth is the number of nodes on the longest root-to-leaf path.
C15_DrainCascadeComplete ==
    (~panicked /\ IsForkTree) =>
        /\ staged_cnt = Len(added)
        /\ DOMAIN Nodes = AddedSet
        /\ out_of_order_cnt = 0
        /\ \A h \in DOMAIN Nodes \ {added[1]} :
              Nodes[h].parent = Nodes[h].block_info.prev_hash
        /\ staged_blocks.tree_depth = SetMax({PathLen(h, MaxPerm) : h \in AddedSet})

\* ----------------------------------------------------------------- C16
\* C16 (as stated): an add_block on an empty tree makes the block the root
\* with orig_level = root_removed_cnt + 1 and, when nothing is drained after
\* it, tree_depth = 1; so the root of every non-empty tree has
\* orig_level - root_removed_cnt = 1.
C16_InsertIntoEmptyTree ==
    [][ ~panicked' =>
          /\ (last'.op = "add_block" /\ TreeRoot = None)
             => /\ TreeRoot' = last'.hash
                /\ Nodes'[TreeRoot'].orig_level = staged_blocks'.root_removed_cnt + 1
                /\ staged_cnt' = 1 => staged_blocks'.tree_depth = 1
          /\ TreeRoot' # None
             => Nodes'[TreeRoot'].orig_level - staged_blocks'.root_removed_cnt = 1
      ]_vars

\* ----------------------------------------------------------------- C17
\* C17: promotion bookkeeping.  A remove_block_if_ready call that returns a
\* block removes exactly the root from the tree and returns it, decreases
\* tree_depth by 1 and increases root_removed_cnt by 1, which is then the
\* number of blocks returned so far, and leaves orig_level, children and
\* descriptor of every node that is still in the tree as they were; a call
\* that returns None changes nothing in the cache.
C17_PromotionBookkeeping ==
    [][ (last'.op = "remove_block_if_ready" /\ ~panicked') =>
          IF last'.ret # NoneBlock
          THEN /\ TreeRoot # None
               /\ last'.ret = Nodes[TreeRoot].block_info
               /\ TreeRoot \notin DOMAIN Nodes'
               /\ DOMAIN Nodes' \subseteq DOMAIN Nodes
               /\ returned' = Append(returned, last'.ret)
               /\ staged_blocks'.tree_depth = WrappingSub(staged_blocks.tree_depth, 1)
               /\ staged_blocks'.root_removed_cnt = staged_blocks.root_removed_cnt + 1
               /\ staged_blocks'.root_removed_cnt = Len(returned')
               /\ \A h \in DOMAIN Nodes' :
                     /\ Nodes'[h].orig_level = Nodes[h].orig_level
                     /\ Nodes'[h].children = Nodes[h].children
                     /\ Nodes'[h].block_info = Nodes[h].block_info
          ELSE UNCHANGED <<pending_full_blocks, out_of_order_blocks,
                           staged_blocks, returned>>
      ]_vars

\* The second promotion or a later one purged a losing branch and left a root
\* with descendants.
C17_Witness ==
    /\ Promoted
    /\ Len(returned) >= 2
    /\ purged # <<>>
    /\ \E h \in DOMAIN Nodes : Nodes[h].children # {}

\* ----------------------------------------------------------------- C18
\* C18 (as stated): a remove_block_if_ready call that passes the depth check
\* on a root without children does not abort; it returns the root's block,
\* removes the root's payload from pending and leaves the tree empty:
\* tree_root absent, nodes empty, tree_depth 0.
C18_ChildlessRootPromotion ==
    [][ (/\ ~panicked
         /\ last'.op = "remove_block_if_ready"
         /\ TreeRoot # None
         /\ Nodes[TreeRoot].children = {}
         /\ staged_blocks.tree_depth # 0
         /\ \E T \in 0 .. MaxThreshold :
               /\ ~U32Less(staged_blocks.tree_depth, T)
               /\ \E r \in RemoveOutcomes(T) : r.c.staged_blocks = staged_blocks')
        => /\ ~panicked'
           /\ last'.ret = pending_full_blocks[TreeRoot]
           /\ last'.ret.hash = TreeRoot
           /\ TreeRoot \notin DOMAIN pending_full_blocks'
           /\ TreeRoot' = None
           /\ Nodes' = EmptyMap
           /\ staged_blocks'.tree_depth = 0
      ]_vars

\* ----------------------------------------------------------------- C19
\* C19 (as stated): in every state with staged_cnt = 0, pending_cnt =
\* out_of_order_cnt when out_of_order_cnt > 0 and pending_cnt = 0 otherwise,
\* which is what main asserts after its final drain.
C19_PostDrainAssertion ==
    (~panicked /\ staged_cnt = 0) =>
        IF out_of_order_cnt > 0
        THEN pending_cnt = out_of_order_cnt
        ELSE pending_cnt = 0

\* ----------------------------------------------------------------- C20
\* C20 (as stated): every add_block returns, and every node it inserts below
\* the root has orig_level >= root_removed_cnt and orig_level -
\* root_removed_cnt >= 2: the u32 subtraction of the effective depth never
\* underflows.
C20_NoUnderflow ==
    [][ (~panicked /\ last'.op = "add_block") =>
          /\ ~panicked'
          /\ \A h \in DOMAIN Nodes' \ (DOMAIN Nodes \cup {TreeRoot'}) :
                /\ Nodes'[h].orig_level >= staged_blocks'.root_removed_cnt
                /\ Nodes'[h].orig_level - staged_blocks'.root_removed_cnt >= 2
      ]_vars

\* ----------------------------------------------------------------- C21
\* C21 (as stated): the loop `while staged_cnt() > 0 { remove_block_if_ready(0) }`
\* terminates from every state: in every state with staged_cnt > 0 a call of
\* remove_block_if_ready(0) returns and leaves a strictly smaller staged_cnt.
C21_ShutdownDrainTerminates ==
    (~panicked /\ staged_cnt > 0) =>
        \A r \in RemoveOutcomes(0) :
            /\ ~r.c.panicked
            /\ Cardinality(DOMAIN r.c.staged_blocks.nodes) < staged_cnt

====
